---- MODULE Spec2Model ----
(***************************************************************************)
(* A model of gitignore-gen's template store (TemplateManager in           *)
(* gitignore_gen/template_manager.py): the in-memory templates_db, the     *)
(* metadata index file, the per-template content files of the custom       *)
(* directory, and one export/import file; and of its recommendation engine *)
(* (AIRecommendationEngine in gitignore_gen/ai_recommendations.py).        *)
(*                                                                         *)
(* Strings are sequences of Unicode code points.  A datetime is a natural  *)
(* number (a reading of the clock); its ISO-8601 text is <<"iso", t>>.     *)
(* An Optional argument is <<>> for None and <<v>> for a supplied v.       *)
(***************************************************************************)
EXTENDS Integers, Sequences, FiniteSets, TLC

VARIABLES
    templates_db,   \* TemplateManager.templates_db: the templates, in dict (insertion) order
    metadata_file,  \* ~/.gign/templates/metadata.json
    custom_dir,     \* ~/.gign/templates/custom/<name>.gitignore: name -> text of the file
    xfer_file,      \* the file export_template writes
    exported,       \* history: <<t>> when export_template wrote xfer_file from template t
    clock,          \* the latest reading of datetime.now()
    faults,         \* the number of storage failures so far
    ret,            \* the last operation, what it returned or raised, whether it asked Confirm
    community_patterns  \* AIRecommendationEngine.community_patterns: technology -> patterns

vars ==
    <<templates_db, metadata_file, custom_dir, xfer_file, exported, clock, faults, ret,
      community_patterns>>

(***************************************************************************)
(* Bounds of the model.                                                    *)
(***************************************************************************)
MaxTemplates == 2
MaxClock == 2
MaxFaults == 1
MaxContentLen == 5
MaxShortName == 3
MaxEntries == 3
MaxTechs == 2

(***************************************************************************)
(* Strings.                                                                *)
(***************************************************************************)
Hyphen == 45
Underscore == 95

\* str.replace(old, ''), for a one-character old
replace(s, old) == SelectSeq(s, LAMBDA c : c # old)

\* str.isalnum() of one character, for the code points below 256
IsAlnumChar(c) ==
    \/ c \in 48..57 \/ c \in 65..90 \/ c \in 97..122
    \/ c \in {170, 178, 179, 181, 185, 186, 188, 189, 190}
    \/ c \in 192..214 \/ c \in 216..246 \/ c \in 248..255

\* str.isalnum()
isalnum(s) == Len(s) > 0 /\ \A i \in 1..Len(s) : IsAlnumChar(s[i])

\* UTF-8 of one code point below 65536
EncodeChar(c) ==
    IF c < 128 THEN <<c>>
    ELSE IF c < 2048 THEN <<192 + (c \div 64), 128 + (c % 64)>>
    ELSE <<224 + (c \div 4096), 128 + ((c \div 64) % 64), 128 + (c % 64)>>

RECURSIVE encode(_)
\* str.encode()
encode(s) == IF s = <<>> THEN <<>> ELSE EncodeChar(Head(s)) \o encode(Tail(s))

\* hashlib.sha256(...).hexdigest(): the digest is modelled as collision free
sha256_hexdigest(bytes) == <<"sha256", bytes>>

calculate_checksum(content) == sha256_hexdigest(encode(content))

\* datetime.isoformat()
isoformat(t) == <<"iso", t>>

\* whether datetime.fromisoformat(s) returns (it raises ValueError otherwise)
IsIsoFormat(s) == Len(s) = 2 /\ s[1] = "iso"

\* datetime.fromisoformat(s)
fromisoformat(s) == s[2]

(***************************************************************************)
(* Template and its dict form (dataclasses.asdict with the two datetimes   *)
(* as ISO text).                                                           *)
(***************************************************************************)
TemplateFields ==
    {"name", "description", "content", "author", "version", "tags", "technologies",
     "created_at", "updated_at", "downloads", "rating", "is_official", "is_custom",
     "file_size", "checksum"}

\* asdict(template) with created_at and updated_at replaced by their isoformat()
TemplateDict(t) ==
    [t EXCEPT !.created_at = isoformat(t.created_at),
              !.updated_at = isoformat(t.updated_at)]

\* DictLoads without the check of the keys: a record class that takes any keys
DictLoads_AnyKeys(d) ==
    /\ "created_at" \in DOMAIN d
    /\ IsIsoFormat(d.created_at)
    /\ "updated_at" \in DOMAIN d
    /\ IsIsoFormat(d.updated_at)

\* whether the datetimes of a dict parse and Template(**d) accepts its keys
DictLoads(d) ==
    /\ "created_at" \in DOMAIN d
    /\ IsIsoFormat(d.created_at)
    /\ "updated_at" \in DOMAIN d
    /\ IsIsoFormat(d.updated_at)
    /\ DOMAIN d = TemplateFields

\* Template(**d) after the two fromisoformat conversions
TemplateOf(d) ==
    [d EXCEPT !.created_at = fromisoformat(d.created_at),
              !.updated_at = fromisoformat(d.updated_at)]

(***************************************************************************)
(* templates_db: a dict, modelled as the sequence of its values in         *)
(* insertion order, keyed by the key each was stored under (its name).     *)
(***************************************************************************)
HasName(db, name) == \E i \in 1..Len(db) : db[i].name = name

IndexOf(db, name) == CHOOSE i \in 1..Len(db) : db[i].name = name

\* templates_db.get(name) of a name that is there
Lookup(db, name) == db[IndexOf(db, name)]

\* templates_db[name] = t: an existing key keeps its place
DbPut(db, t) ==
    IF HasName(db, t.name) THEN [db EXCEPT ![IndexOf(db, t.name)] = t]
    ELSE Append(db, t)

\* del templates_db[name]
DbDel(db, name) == SelectSeq(db, LAMBDA t : t.name # name)

(***************************************************************************)
(* Storage.  A write succeeds ("ok") or fails: open fails and the file     *)
(* stays as it was ("unchanged"), or, for the index, the dump fails after  *)
(* open truncated the file ("truncated").                                  *)
(***************************************************************************)
Failed(io) == io # "ok"

\* the custom directory after template_file.write_text(content)
write_text(dir, name, content, io) ==
    IF io = "ok" THEN (name :> content) @@ dir ELSE dir

\* the custom directory after template_file.unlink() if it exists
unlink(dir, name) == [n \in DOMAIN dir \ {name} |-> dir[n]]

\* the JSON object _save_templates_database dumps
IndexData(db) == [i \in 1..Len(db) |-> <<db[i].name, TemplateDict(db[i])>>]

\* metadata.json after _save_templates_database, which swallows a failure
save_templates_database(db, old, io) ==
    IF io = "ok" THEN [state |-> "ok", data |-> IndexData(db)]
    ELSE IF io = "truncated" THEN [state |-> "corrupt", data |-> <<>>]
    ELSE old

\* _load_templates_database: an index that is absent or does not load gives {}
load_templates_database(file) ==
    IF file.state = "ok" /\ \A i \in 1..Len(file.data) : DictLoads(file.data[i][2])
    THEN [i \in 1..Len(file.data) |-> TemplateOf(file.data[i][2])]
    ELSE <<>>

Ret(op, result, asked) == [op |-> op, result |-> result, asked |-> asked]

(***************************************************************************)
(* Inputs.                                                                 *)
(***************************************************************************)
NameA == <<97>>                          \* "a"
NameB == <<98, 45, 49>>                  \* "b-1"
NameBlank == <<97, 32, 98>>              \* "a b"
NameDashes == <<45, 95>>                 \* "-_"
NameLong == [i \in 1..51 |-> 97]         \* "a" * 51

CreateNames == {NameA, NameB, NameLong, NameBlank, NameDashes, <<>>}
CallNames == {NameA, NameB, NameLong, NameBlank}
UpdateNames == {NameA, NameB}
ExportNames == CallNames

ContentStar == <<42>>                    \* "*"
ContentAccent == <<233, 42>>             \* "é*"
Contents == {ContentStar, ContentAccent}

DescOne == <<100, 49>>                   \* "d1"
DescTwo == <<68, 50>>                    \* "D2"
TagsOne == <<<<119, 101, 98>>>>          \* ["web"]
TagsTwo == <<<<88>>, <<119, 101, 98>>>>  \* ["X", "web"]
TechOne == <<<<112, 121>>>>              \* ["py"]
TechTwo == <<>>                          \* []
AuthorMe == <<109, 101>>                 \* "me"
VersionOne == <<49, 46, 48, 46, 48>>     \* "1.0.0"
VersionTwo == <<50, 46, 48, 46, 48>>     \* "2.0.0"

None == <<>>
Some(v) == <<v>>
Optional(S) == {None} \cup {Some(v) : v \in S}

\* the reading datetime.now() gives next: later than the one before, and a run
\* of the model reads the clock MaxClock times
Nows == IF clock < MaxClock THEN {clock + 1} ELSE {}

\* the ways a write of a content or export file, and of the index, can fail
FileFailures == {"unchanged"}
SaveFailures == {"unchanged", "truncated"}

\* the replies the user can give: Confirm.ask returns one only when it is called,
\* and a call that does not prompt reads none
Answers(prompted) == IF prompted THEN BOOLEAN ELSE {TRUE}

Count(io) == IF Failed(io) THEN faults + 1 ELSE faults

(***************************************************************************)
(* TemplateValidator.validate_template_name                                *)
(***************************************************************************)
MaxNameLength == 50

\* the list of errors, each named by the rule it reports
NameErrors(name) ==
    (IF name = <<>> THEN <<"empty">> ELSE <<>>)
    \o (IF Len(name) > MaxNameLength THEN <<"too long">> ELSE <<>>)
    \o (IF ~isalnum(replace(replace(name, Hyphen), Underscore))
        THEN <<"not alphanumeric">> ELSE <<>>)

validate_template_name(name) ==
    [valid |-> Len(NameErrors(name)) = 0, errors |-> NameErrors(name)]

(***************************************************************************)
(* TemplateValidator.validate_template_content                             *)
(***************************************************************************)
Slash == 47
Star == 42
Hash == 35
Newline == 10

\* str.isspace() of one character, for the code points below 256: what
\* str.strip() removes
IsSpace(c) == c \in (9..13) \cup (28..32) \cup {133, 160}

RECURSIVE lstrip(_)
lstrip(s) == IF s # <<>> /\ IsSpace(Head(s)) THEN lstrip(Tail(s)) ELSE s

RECURSIVE rstrip(_)
rstrip(s) ==
    IF s # <<>> /\ IsSpace(s[Len(s)]) THEN rstrip(SubSeq(s, 1, Len(s) - 1)) ELSE s

\* strip that removes the leading whitespace only
strip_Left(s) == lstrip(s)

\* str.strip()
strip(s) == rstrip(lstrip(s))

RECURSIVE SplitFrom(_, _, _)
\* the lines of rest, after the lines of done and the start cur of the next one
SplitFrom(done, cur, rest) ==
    IF rest = <<>> THEN Append(done, cur)
    ELSE IF Head(rest) = Newline THEN SplitFrom(Append(done, cur), <<>>, Tail(rest))
    ELSE SplitFrom(done, Append(cur, Head(rest)), Tail(rest))

\* content.split('\n')
split(content) == SplitFrom(<<>>, <<>>, content)

\* line.startswith(c) and line.endswith(c), for a character c
startswith(line, c) == line # <<>> /\ line[1] = c
endswith(line, c) == line # <<>> /\ line[Len(line)] = c

\* '**' in line
HasDoubleStar(line) == \E i \in 1..(Len(line) - 1) : line[i] = Star /\ line[i + 1] = Star

\* LineErrors with "elif" for the second test
LineErrors_FirstOnly(i, line) ==
    IF line # <<>> /\ ~startswith(line, Hash)
    THEN IF startswith(line, Slash) /\ ~endswith(line, Slash)
         THEN <<<<"absolute path", i, line>>>>
         ELSE IF HasDoubleStar(line) /\ ~endswith(line, Slash)
              THEN <<<<"double star", i, line>>>>
              ELSE <<>>
    ELSE <<>>

\* lines 522-528: the errors of the stripped line numbered i; a message holds
\* the number and the stripped line
LineErrors(i, line) ==
    IF line # <<>> /\ ~startswith(line, Hash)
    THEN (IF startswith(line, Slash) /\ ~endswith(line, Slash)
          THEN <<<<"absolute path", i, line>>>> ELSE <<>>)
         \o (IF HasDoubleStar(line) /\ ~endswith(line, Slash)
             THEN <<<<"double star", i, line>>>> ELSE <<>>)
    ELSE <<>>

RECURSIVE LinesErrors(_, _)
\* lines 520-528: for i, line in enumerate(lines, 1), from line i on
LinesErrors(lines, i) ==
    IF i > Len(lines) THEN <<>>
    ELSE LineErrors(i, strip(lines[i])) \o LinesErrors(lines, i + 1)

\* the list errors of validate_template_content
ContentErrors(content) ==
    (IF strip(content) = <<>> THEN <<<<"empty">>>> ELSE <<>>)
    \o LinesErrors(split(content), 1)

validate_template_content(content) ==
    [valid |-> Len(ContentErrors(content)) = 0, errors |-> ContentErrors(content)]

(***************************************************************************)
(* create_template                                                         *)
(***************************************************************************)
\* the test of line 109: the name is refused
NameRefused(name) ==
    name = <<>> \/ ~isalnum(replace(replace(name, Hyphen), Underscore))

\* the Template object create_template builds
NewTemplate(name, description, content, author, tags, technologies, is_official, now) ==
    [name |-> name, description |-> description, content |-> content,
     author |-> author, version |-> VersionOne, tags |-> tags,
     technologies |-> technologies, created_at |-> now, updated_at |-> now,
     downloads |-> 0, rating |-> 0, is_official |-> is_official, is_custom |-> TRUE,
     file_size |-> Len(encode(content)), checksum |-> calculate_checksum(content)]

create_template(name, description, content, author, tags, technologies, is_official, now, fileIO, saveIO) ==
    IF NameRefused(name) THEN
        /\ ret' = Ret("create", "InvalidName", FALSE)
        /\ UNCHANGED <<community_patterns, templates_db, metadata_file, custom_dir,
                      xfer_file, exported, clock, faults>>
    ELSE IF HasName(templates_db, name) THEN
        /\ ret' = Ret("create", "DuplicateName", FALSE)
        /\ UNCHANGED <<community_patterns, templates_db, metadata_file, custom_dir,
                      xfer_file, exported, clock, faults>>
    ELSE IF Failed(fileIO) THEN
        \* write_text raises: the exception leaves create_template
        /\ Len(templates_db) < MaxTemplates
        /\ custom_dir' = write_text(custom_dir, name, content, fileIO)
        /\ clock' = now
        /\ faults' = faults + 1
        /\ ret' = Ret("create", "StorageIO", FALSE)
        /\ UNCHANGED <<community_patterns, templates_db, metadata_file, xfer_file, exported>>
    ELSE
        /\ Len(templates_db) < MaxTemplates
        /\ custom_dir' = write_text(custom_dir, name, content, fileIO)
        /\ templates_db' = DbPut(templates_db,
               NewTemplate(name, description, content, author, tags, technologies,
                           is_official, now))
        /\ metadata_file' = save_templates_database(templates_db', metadata_file, saveIO)
        /\ clock' = now
        /\ faults' = Count(saveIO)
        /\ ret' = Ret("create", "ok", FALSE)
        /\ UNCHANGED <<community_patterns, xfer_file, exported>>

\* the calls of create_template the model makes: each content comes with its own flag
CreateArgs == {<<ContentStar, FALSE>>, <<ContentAccent, TRUE>>}

Create ==
    \E name \in CreateNames, args \in CreateArgs, now \in Nows :
        create_template(name, DescOne, args[1], AuthorMe, TagsOne, TechOne,
                        args[2], now, "ok", "ok")

\* create_template when the write of the content file or of the index fails
CreateFault ==
    \E name \in CreateNames, args \in CreateArgs, now \in Nows,
       io \in ({"ok"} \X SaveFailures) \cup (FileFailures \X {"ok"}) :
        /\ faults < MaxFaults
        /\ ~NameRefused(name) /\ ~HasName(templates_db, name)
        /\ create_template(name, DescOne, args[1], AuthorMe, TagsOne, TechOne,
                           args[2], now, io[1], io[2])

(***************************************************************************)
(* update_template                                                         *)
(***************************************************************************)
\* lines 163-168: description, then content with file_size and checksum
WithContent(t, description, content) ==
    LET t1 == IF description # None THEN [t EXCEPT !.description = description[1]] ELSE t
    IN  IF content # None
        THEN [t1 EXCEPT !.content = content[1],
                        !.file_size = Len(encode(content[1])),
                        !.checksum = calculate_checksum(content[1])]
        ELSE t1

\* WithRest testing "if technologies:" where the code tests "is not None"
WithRest_Truthy(t, tags, technologies, version, now) ==
    LET t1 == IF tags # None THEN [t EXCEPT !.tags = tags[1]] ELSE t
        t2 == IF technologies # None /\ technologies[1] # <<>>
              THEN [t1 EXCEPT !.technologies = technologies[1]] ELSE t1
        t3 == IF version # None THEN [t2 EXCEPT !.version = version[1]] ELSE t2
    IN  [t3 EXCEPT !.updated_at = now]

\* lines 174-181: tags, technologies, version, then updated_at
WithRest(t, tags, technologies, version, now) ==
    LET t1 == IF tags # None THEN [t EXCEPT !.tags = tags[1]] ELSE t
        t2 == IF technologies # None THEN [t1 EXCEPT !.technologies = technologies[1]] ELSE t1
        t3 == IF version # None THEN [t2 EXCEPT !.version = version[1]] ELSE t2
    IN  [t3 EXCEPT !.updated_at = now]

update_template(name, description, content, tags, technologies, version, now, fileIO, saveIO) ==
    IF ~HasName(templates_db, name) THEN
        /\ ret' = Ret("update", "NotFound", FALSE)
        /\ UNCHANGED <<community_patterns, templates_db, metadata_file, custom_dir,
                      xfer_file, exported, clock, faults>>
    ELSE IF content # None /\ Failed(fileIO) THEN
        \* write_text raises after the object in templates_db was changed in place
        /\ templates_db' = DbPut(templates_db,
               WithContent(Lookup(templates_db, name), description, content))
        /\ custom_dir' = write_text(custom_dir, name, content[1], fileIO)
        /\ faults' = faults + 1
        /\ ret' = Ret("update", "StorageIO", FALSE)
        /\ UNCHANGED <<community_patterns, metadata_file, xfer_file, exported, clock>>
    ELSE
        /\ templates_db' = DbPut(templates_db,
               WithRest(WithContent(Lookup(templates_db, name), description, content),
                        tags, technologies, version, now))
        /\ custom_dir' = IF content # None
                         THEN write_text(custom_dir, name, content[1], fileIO)
                         ELSE custom_dir
        /\ metadata_file' = save_templates_database(templates_db', metadata_file, saveIO)
        /\ clock' = now
        /\ faults' = Count(saveIO)
        /\ ret' = Ret("update", "ok", FALSE)
        /\ UNCHANGED <<community_patterns, xfer_file, exported>>

\* the calls of update_template the model makes, as <<description, content, tags,
\* technologies, version>>: no field, each field alone, and all of them
UpdateArgs ==
    {<<None, None, None, None, None>>,
     <<Some(DescTwo), None, None, None, None>>,
     <<None, Some(ContentAccent), None, None, None>>,
     <<None, None, Some(TagsTwo), None, None>>,
     <<None, None, None, Some(TechTwo), None>>,
     <<None, None, None, None, Some(VersionTwo)>>,
     <<Some(DescTwo), Some(ContentAccent), Some(TagsTwo), Some(TechTwo), Some(VersionTwo)>>}

Update ==
    \E name \in UpdateNames, args \in UpdateArgs, now \in Nows :
        update_template(name, args[1], args[2], args[3], args[4], args[5],
                        now, "ok", "ok")

\* update_template when the write of the content file or of the index fails
UpdateFault ==
    \E name \in UpdateNames, args \in UpdateArgs, now \in Nows,
       io \in ({"ok"} \X SaveFailures) \cup (FileFailures \X {"ok"}) :
        /\ faults < MaxFaults
        /\ HasName(templates_db, name)
        /\ Failed(io[1]) => args[2] # None
        /\ update_template(name, args[1], args[2], args[3], args[4], args[5],
                           now, io[1], io[2])

(***************************************************************************)
(* delete_template                                                         *)
(***************************************************************************)
\* delete_template asking for the confirmation before it looks the name up
delete_template_AskFirst(name, force, answer, saveIO) ==
    IF ~force /\ ~answer THEN
        /\ ret' = Ret("delete", "False", TRUE)
        /\ UNCHANGED <<community_patterns, templates_db, metadata_file, custom_dir,
                      xfer_file, exported, clock, faults>>
    ELSE IF ~HasName(templates_db, name) THEN
        /\ ret' = Ret("delete", "NotFound", ~force)
        /\ UNCHANGED <<community_patterns, templates_db, metadata_file, custom_dir,
                      xfer_file, exported, clock, faults>>
    ELSE
        /\ templates_db' = DbDel(templates_db, name)
        /\ metadata_file' = save_templates_database(templates_db', metadata_file, saveIO)
        /\ custom_dir' = unlink(custom_dir, name)
        /\ faults' = Count(saveIO)
        /\ ret' = Ret("delete", "True", ~force)
        /\ UNCHANGED <<community_patterns, xfer_file, exported, clock>>

delete_template(name, force, answer, saveIO) ==
    IF ~HasName(templates_db, name) THEN
        /\ ret' = Ret("delete", "NotFound", FALSE)
        /\ UNCHANGED <<community_patterns, templates_db, metadata_file, custom_dir,
                      xfer_file, exported, clock, faults>>
    ELSE IF ~force /\ ~answer THEN
        /\ ret' = Ret("delete", "False", TRUE)
        /\ UNCHANGED <<community_patterns, templates_db, metadata_file, custom_dir,
                      xfer_file, exported, clock, faults>>
    ELSE
        /\ templates_db' = DbDel(templates_db, name)
        /\ metadata_file' = save_templates_database(templates_db', metadata_file, saveIO)
        /\ custom_dir' = unlink(custom_dir, name)
        /\ faults' = Count(saveIO)
        /\ ret' = Ret("delete", "True", ~force)
        /\ UNCHANGED <<community_patterns, xfer_file, exported, clock>>

Delete ==
    \E name \in CallNames, force \in BOOLEAN :
        \E answer \in Answers(HasName(templates_db, name) /\ ~force) :
            delete_template(name, force, answer, "ok")

\* delete_template when the write of the index fails
DeleteFault ==
    \E name \in CallNames, force \in BOOLEAN, saveIO \in SaveFailures :
        /\ faults < MaxFaults
        /\ HasName(templates_db, name)
        /\ delete_template(name, force, TRUE, saveIO)

(***************************************************************************)
(* get_template                                                            *)
(***************************************************************************)
\* templates_db.get(name): None for a name that is not there
get_template(db, name) == IF HasName(db, name) THEN Some(Lookup(db, name)) ELSE None

\* the call of get_template, with the name asked for
Get ==
    \E name \in CallNames :
        /\ ret' = [op |-> "get", result |-> get_template(templates_db, name),
                   asked |-> FALSE, args |-> name]
        /\ UNCHANGED <<community_patterns, templates_db, metadata_file, custom_dir,
                      xfer_file, exported, clock, faults>>

(***************************************************************************)
(* list_templates                                                          *)
(***************************************************************************)
\* str.lower() of one character, for the code points below 256
LowerChar(c) ==
    IF c \in 65..90 \/ c \in 192..214 \/ c \in 216..222 THEN c + 32 ELSE c

\* lower that leaves the case as it is
lower_AsIs(s) == s

\* str.lower()
lower(s) == [i \in 1..Len(s) |-> LowerChar(s[i])]

\* a in b, for strings
InStr(a, b) == \E i \in 0..(Len(b) - Len(a)) : SubSeq(b, i + 1, i + Len(a)) = a

\* x in l, for lists
InList(x, l) == \E i \in 1..Len(l) : l[i] = x

\* the test "if search:", "if tags:", "if technologies:": neither None nor empty
Truthy(opt) == opt # None /\ opt[1] # <<>>

\* lines 228-233: the test of the search filter on one template
SearchMatches(t, search_lower) ==
    \/ InStr(search_lower, lower(t.name))
    \/ InStr(search_lower, lower(t.description))
    \/ \E i \in 1..Len(t.tags) : InStr(search_lower, lower(t.tags[i]))

\* lines 226-251: the filters, one after the other
Filtered(db, search, tags, technologies, custom_only, official_only) ==
    LET f1 == IF Truthy(search)
              THEN SelectSeq(db, LAMBDA t : SearchMatches(t, lower(search[1])))
              ELSE db
        f2 == IF Truthy(tags)
              THEN SelectSeq(f1, LAMBDA t : \E i \in 1..Len(tags[1]) : InList(tags[1][i], t.tags))
              ELSE f1
        f3 == IF Truthy(technologies)
              THEN SelectSeq(f2, LAMBDA t : \E i \in 1..Len(technologies[1]) :
                                               InList(technologies[1][i], t.technologies))
              ELSE f2
        f4 == IF custom_only THEN SelectSeq(f3, LAMBDA t : t.is_custom) ELSE f3
    IN  IF official_only THEN SelectSeq(f4, LAMBDA t : t.is_official) ELSE f4

\* one step of the sort: t goes behind every element whose downloads are not
\* smaller than its own
InsertByDownloads(l, t) ==
    LET k == Cardinality({i \in 1..Len(l) : l[i].downloads >= t.downloads})
    IN  SubSeq(l, 1, k) \o <<t>> \o SubSeq(l, k + 1, Len(l))

RECURSIVE SortFrom(_, _)
SortFrom(done, rest) ==
    IF rest = <<>> THEN done
    ELSE SortFrom(InsertByDownloads(done, Head(rest)), Tail(rest))

\* sorted by ascending downloads and then reversed
sorted_Reversed(l) == SortFrom(<<>>, [i \in 1..Len(l) |-> l[Len(l) + 1 - i]])

\* sorted(templates, key=lambda t: t.downloads, reverse=True): a stable sort
sorted(l) == SortFrom(<<>>, l)

list_templates(db, search, tags, technologies, custom_only, official_only) ==
    sorted(Filtered(db, search, tags, technologies, custom_only, official_only))

(***************************************************************************)
(* export_template and import_template                                     *)
(***************************************************************************)
NoFile == [kind |-> "absent", doc |-> <<>>]
BrokenFile == [kind |-> "unparseable", doc |-> <<>>]
JsonFile(doc) == [kind |-> "json", doc |-> doc]

\* ExportData in the format of the index entry without its content
ExportData_NoContent(t, now) ==
    [template |-> [f \in TemplateFields \ {"content"} |-> TemplateDict(t)[f]],
     exported_at |-> isoformat(now), exported_by |-> "gign"]

\* export_data of lines 294-302
ExportData(t, now) ==
    [template |-> TemplateDict(t), exported_at |-> isoformat(now), exported_by |-> "gign"]

\* export_template that gives the template away: it takes it out of the store
export_template_Moving(name, now, outIO) ==
    IF ~HasName(templates_db, name) THEN
        /\ ret' = Ret("export", "False", FALSE)
        /\ UNCHANGED <<community_patterns, templates_db, metadata_file, custom_dir,
                      xfer_file, exported, clock, faults>>
    ELSE
        /\ xfer_file' = JsonFile(ExportData(Lookup(templates_db, name), now))
        /\ exported' = <<Lookup(templates_db, name)>>
        /\ templates_db' = DbDel(templates_db, name)
        /\ clock' = now
        /\ ret' = Ret("export", "True", FALSE)
        /\ UNCHANGED <<community_patterns, metadata_file, custom_dir, faults>>

export_template(name, now, outIO) ==
    IF ~HasName(templates_db, name) THEN
        /\ ret' = Ret("export", "False", FALSE)
        /\ UNCHANGED <<community_patterns, templates_db, metadata_file, custom_dir,
                      xfer_file, exported, clock, faults>>
    ELSE
        /\ xfer_file' = IF outIO = "ok"
                        THEN JsonFile(ExportData(Lookup(templates_db, name), now))
                        ELSE xfer_file
        /\ exported' = IF outIO = "ok" THEN <<Lookup(templates_db, name)>> ELSE exported
        /\ clock' = now
        /\ faults' = Count(outIO)
        /\ ret' = Ret("export", IF outIO = "ok" THEN "True" ELSE "False", FALSE)
        /\ UNCHANGED <<community_patterns, templates_db, metadata_file, custom_dir>>

Export ==
    \E name \in ExportNames, now \in Nows :
        export_template(name, now, "ok")

\* export_template when the write of the export file fails
ExportFault ==
    \E name \in ExportNames, now \in Nows, outIO \in FileFailures :
        /\ faults < MaxFaults
        /\ HasName(templates_db, name)
        /\ export_template(name, now, outIO)

\* lines 318-328 return a Template: the file opens, parses, holds a "template"
\* whose datetimes parse and whose keys are Template's fields
ImportLoads(file) ==
    /\ file.kind = "json"
    /\ "template" \in DOMAIN file.doc
    /\ DictLoads(file.doc.template)

\* line 331: the file loads and the name of its template is in templates_db
Collides(file) ==
    ImportLoads(file) /\ HasName(templates_db, TemplateOf(file.doc.template).name)

\* ImportDeclined of an import that overwrites whatever the answer
ImportDeclined_Never(exists, answer) == FALSE

\* lines 331-333: the name is taken and the caller answers no
ImportDeclined(exists, answer) == exists /\ ~answer

import_template(file, answer, fileIO, saveIO) ==
    IF ~ImportLoads(file) THEN
        /\ ret' = Ret("import", "False", FALSE)
        /\ UNCHANGED <<community_patterns, templates_db, metadata_file, custom_dir,
                      xfer_file, exported, clock, faults>>
    ELSE
        LET template == TemplateOf(file.doc.template)
            exists == HasName(templates_db, template.name)
        IN  IF ImportDeclined(exists, answer) THEN
                /\ ret' = Ret("import", "False", TRUE)
                /\ UNCHANGED <<community_patterns, templates_db, metadata_file, custom_dir,
                              xfer_file, exported, clock, faults>>
            ELSE IF Failed(fileIO) THEN
                \* write_text raises, and the except clause returns False
                /\ exists \/ Len(templates_db) < MaxTemplates
                /\ custom_dir' = write_text(custom_dir, template.name, template.content, fileIO)
                /\ faults' = faults + 1
                /\ ret' = Ret("import", "False", exists)
                /\ UNCHANGED <<community_patterns, templates_db, metadata_file, xfer_file,
                              exported, clock>>
            ELSE
                /\ exists \/ Len(templates_db) < MaxTemplates
                /\ custom_dir' = write_text(custom_dir, template.name, template.content, fileIO)
                /\ templates_db' = DbPut(templates_db, template)
                /\ metadata_file' = save_templates_database(templates_db', metadata_file, saveIO)
                /\ faults' = Count(saveIO)
                /\ ret' = Ret("import", "True", exists)
                /\ UNCHANGED <<community_patterns, xfer_file, exported, clock>>

(***************************************************************************)
(* AIRecommendationEngine (gitignore_gen/ai_recommendations.py).  The      *)
(* project directory is the set of its files and directories, each with    *)
(* its name, the directories above it below the project root, and, for a   *)
(* file, its size in bytes.  A confidence is in hundredths.                *)
(***************************************************************************)
Dot == 46

TechPython == <<112, 121, 116, 104, 111, 110>>   \* "python"
TechNode == <<110, 111, 100, 101>>               \* "node"
TechJava == <<106, 97, 118, 97>>                 \* "java"

\* _load_community_patterns
load_community_patterns ==
    [tech \in {TechPython, TechNode, TechJava} |->
        IF tech = TechPython THEN
          <<<<42, 46, 112, 121, 99>>,                                         \* *.pyc
            <<95, 95, 112, 121, 99, 97, 99, 104, 101, 95, 95, 47>>,           \* __pycache__/
            <<46, 112, 121, 116, 101, 115, 116, 95, 99, 97, 99, 104, 101, 47>>,\* .pytest_cache/
            <<46, 99, 111, 118, 101, 114, 97, 103, 101>>,                     \* .coverage
            <<104, 116, 109, 108, 99, 111, 118, 47>>,                         \* htmlcov/
            <<46, 116, 111, 120, 47>>,                                        \* .tox/
            <<46, 118, 101, 110, 118, 47>>,                                   \* .venv/
            <<118, 101, 110, 118, 47>>,                                       \* venv/
            <<46, 109, 121, 112, 121, 95, 99, 97, 99, 104, 101, 47>>>>        \* .mypy_cache/
        ELSE IF tech = TechNode THEN
          <<<<110, 111, 100, 101, 95, 109, 111, 100, 117, 108, 101, 115, 47>>,\* node_modules/
            <<110, 112, 109, 45, 100, 101, 98, 117, 103, 46, 108, 111, 103, 42>>,\* npm-debug.log*
            <<121, 97, 114, 110, 45, 100, 101, 98, 117, 103, 46, 108, 111, 103, 42>>,\* yarn-debug.log*
            <<121, 97, 114, 110, 45, 101, 114, 114, 111, 114, 46, 108, 111, 103, 42>>,\* yarn-error.log*
            <<46, 110, 112, 109>>,                                            \* .npm
            <<46, 101, 115, 108, 105, 110, 116, 99, 97, 99, 104, 101>>,       \* .eslintcache
            <<46, 110, 101, 120, 116, 47>>,                                   \* .next/
            <<111, 117, 116, 47>>,                                            \* out/
            <<46, 110, 117, 120, 116, 47>>>>                                  \* .nuxt/
        ELSE
          <<<<116, 97, 114, 103, 101, 116, 47>>,                              \* target/
            <<42, 46, 99, 108, 97, 115, 115>>,                                \* *.class
            <<42, 46, 106, 97, 114>>,                                         \* *.jar
            <<46, 103, 114, 97, 100, 108, 101, 47>>,                          \* .gradle/
            <<98, 117, 105, 108, 100, 47>>,                                   \* build/
            <<46, 105, 100, 101, 97, 47>>,                                    \* .idea/
            <<46, 101, 99, 108, 105, 112, 115, 101, 47>>,                     \* .eclipse/
            <<42, 46, 105, 109, 108>>>>                                       \* *.iml
    ]

Recommendation(title, description, priority, category, action, confidence, reasoning) ==
    [title |-> title, description |-> description, priority |-> priority,
     category |-> category, action |-> action, confidence |-> confidence,
     reasoning |-> reasoning]

\* PurePath.suffix: from the last dot of the name, unless that dot is the first
\* or the last character
suffix(name) ==
    LET dots == {i \in 1..Len(name) : name[i] = Dot}
        last == CHOOSE i \in dots : \A j \in dots : j <= i
    IN  IF dots # {} /\ 1 < last /\ last < Len(name)
        THEN SubSeq(name, last, Len(name))
        ELSE <<>>

\* the raw strings of lines 193-196: each backslash is a character of the
\* pattern (code point 92)
sensitive_patterns ==
    <<<<92, 46, 101, 110, 118>>,                                              \* \.env
      <<92, 46, 107, 101, 121>>,                                              \* \.key
      <<92, 46, 112, 101, 109>>,                                              \* \.pem
      <<92, 46, 99, 114, 116>>,                                               \* \.crt
      <<92, 46, 112, 49, 50>>,                                                \* \.p12
      <<92, 46, 112, 102, 120>>,                                              \* \.pfx
      <<99, 111, 110, 102, 105, 103, 92, 46, 106, 115, 111, 110>>,            \* config\.json
      <<115, 101, 99, 114, 101, 116, 115, 92, 46>>,                           \* secrets\.
      <<112, 97, 115, 115, 119, 111, 114, 100>>,                              \* password
      <<99, 114, 101, 100, 101, 110, 116, 105, 97, 108>>>>                    \* credential

\* "pattern in file_name": the pattern is a substring of the lower-cased name
is_sensitive_file(file_path) ==
    \E i \in 1..Len(sensitive_patterns) : InStr(sensitive_patterns[i], lower(file_path.name))

cache_patterns ==
    <<<<99, 97, 99, 104, 101>>,                                               \* cache
      <<116, 109, 112>>,                                                      \* tmp
      <<116, 101, 109, 112>>,                                                 \* temp
      <<110, 111, 100, 101, 95, 109, 111, 100, 117, 108, 101, 115>>,          \* node_modules
      <<118, 101, 110, 100, 111, 114>>,                                       \* vendor
      <<116, 97, 114, 103, 101, 116>>,                                        \* target
      <<95, 95, 112, 121, 99, 97, 99, 104, 101, 95, 95>>,                     \* __pycache__
      <<46, 112, 121, 116, 101, 115, 116, 95, 99, 97, 99, 104, 101>>,         \* .pytest_cache
      <<46, 109, 121, 112, 121, 95, 99, 97, 99, 104, 101>>,                   \* .mypy_cache
      <<46, 103, 114, 97, 100, 108, 101>>>>                                   \* .gradle

is_cache_directory(dir_path) ==
    \E i \in 1..Len(cache_patterns) : InStr(cache_patterns[i], lower(dir_path.name))

\* 10MB
LargeFileSize == 10 * 1024 * 1024

\* _analyze_project_structure: rglob("*") gives every file and directory below
\* the root; the lists are used for their lengths only and are modelled as sets
analyze_project_structure(project_path) ==
    LET files == {p \in project_path : ~p.is_dir}
        dirs == {p \in project_path : p.is_dir}
    IN  [file_types |->
            [ext \in {lower(suffix(p.name)) : p \in files} |->
                Cardinality({p \in files : lower(suffix(p.name)) = ext})],
         directories |-> dirs,
         sensitive_files |-> {p \in files : is_sensitive_file(p)},
         large_files |-> {p \in files : p.st_size > LargeFileSize},
         cache_dirs |-> {p \in dirs : is_cache_directory(p)}]

generate_security_recommendations_ElseIf(project_path, analysis) ==
    IF analysis.sensitive_files # {}
    THEN <<Recommendation(<<"Sensitive Files Detected">>,
                <<"Found", Cardinality(analysis.sensitive_files),
                  "potentially sensitive files">>,
                "critical", "security",
                <<"Review and add appropriate patterns to .gitignore">>, 95,
                <<"Sensitive files like .env, .key, .pem files should never be committed">>)>>
    ELSE IF \E f \in DOMAIN analysis.file_types :
                InStr(<<99, 111, 110, 102, 105, 103>>, f)    \* "config" in f
    THEN <<Recommendation(<<"Configuration Files">>,
                <<"Configuration files detected that may contain sensitive data">>,
                "high", "security",
                <<"Review config files and add sensitive ones to .gitignore">>, 80,
                <<"Configuration files often contain API keys, passwords, or other secrets">>)>>
    ELSE <<>>

generate_security_recommendations(project_path, analysis) ==
    (IF analysis.sensitive_files # {}
     THEN <<Recommendation(<<"Sensitive Files Detected">>,
                <<"Found", Cardinality(analysis.sensitive_files),
                  "potentially sensitive files">>,
                "critical", "security",
                <<"Review and add appropriate patterns to .gitignore">>, 95,
                <<"Sensitive files like .env, .key, .pem files should never be committed">>)>>
     ELSE <<>>)
    \o
    (IF \E f \in DOMAIN analysis.file_types :
            InStr(<<99, 111, 110, 102, 105, 103>>, f)    \* "config" in f
     THEN <<Recommendation(<<"Configuration Files">>,
                <<"Configuration files detected that may contain sensitive data">>,
                "high", "security",
                <<"Review config files and add sensitive ones to .gitignore">>, 80,
                <<"Configuration files often contain API keys, passwords, or other secrets">>)>>
     ELSE <<>>)

generate_performance_recommendations(project_path, analysis) ==
    (IF analysis.large_files # {}
     THEN <<Recommendation(<<"Large Files Detected">>,
                <<"Found", Cardinality(analysis.large_files), "files larger than 10MB">>,
                "high", "performance",
                <<"Add large files to .gitignore or use Git LFS">>, 90,
                <<"Large files slow down git operations and increase repository size">>)>>
     ELSE <<>>)
    \o
    (IF analysis.cache_dirs # {}
     THEN <<Recommendation(<<"Cache Directories">>,
                <<"Found", Cardinality(analysis.cache_dirs), "cache directories">>,
                "medium", "performance",
                <<"Add cache directories to .gitignore">>, 85,
                <<"Cache directories contain temporary files that should not be committed">>)>>
     ELSE <<>>)

\* whether rglob("*.log") gives the path: its name ends in ".log"
MatchesLog(name) ==
    Len(name) >= 4 /\ SubSeq(name, Len(name) - 3, Len(name)) = <<46, 108, 111, 103>>

\* the names of line 298
BuildDirNames == {<<98, 117, 105, 108, 100>>, <<100, 105, 115, 116>>, <<111, 117, 116>>}

generate_best_practice_recommendations(project_path, technologies, existing_gitignore) ==
    LET log_files == {p \in project_path : MatchesLog(p.name)}
        \* iterdir() gives what is directly in the project directory
        build_dirs == {d \in project_path :
                         d.parents = <<>> /\ d.is_dir /\ d.name \in BuildDirNames}
    IN  (IF log_files # {}
         THEN <<Recommendation(<<"Log Files">>,
                    <<"Found", Cardinality(log_files), "log files">>,
                    "medium", "best_practice",
                    <<"Add *.log to .gitignore">>, 90,
                    <<"Log files contain runtime information and should not be committed">>)>>
         ELSE <<>>)
        \o
        (IF build_dirs # {}
         THEN <<Recommendation(<<"Build Output Directories">>,
                    <<"Found", Cardinality(build_dirs), "build output directories">>,
                    "high", "best_practice",
                    <<"Add build output directories to .gitignore">>, 95,
                    <<"Build outputs are generated files that should not be committed">>)>>
         ELSE <<>>)

\* str.upper() and str.isalpha() of one character, for the ASCII letters
UpperChar(c) == IF c \in 97..122 THEN c - 32 ELSE c
IsLetter(c) == c \in 65..90 \/ c \in 97..122

\* str.title(): a letter that follows no letter in upper case, the other
\* letters in lower case
title(s) ==
    [i \in 1..Len(s) |->
        IF i = 1 \/ ~IsLetter(s[i - 1]) THEN UpperChar(s[i]) ELSE LowerChar(s[i])]

\* missing_patterns that takes every pattern of the technology as missing
missing_patterns_All(patterns, existing_gitignore) == patterns

\* lines 325-331: the patterns that are not in the ignore text; all of them
\* when the text is None or empty
missing_patterns(patterns, existing_gitignore) ==
    IF Truthy(existing_gitignore)
    THEN SelectSeq(patterns, LAMBDA pattern : ~InStr(pattern, existing_gitignore[1]))
    ELSE patterns

RECURSIVE generate_technology_recommendations(_, _)
\* one turn of the loop of line 320 for the first technology, then the rest
generate_technology_recommendations(technologies, existing_gitignore) ==
    IF technologies = <<>> THEN <<>>
    ELSE
        LET tech == Head(technologies)
            missing == missing_patterns(community_patterns[tech], existing_gitignore)
        IN  (IF tech \in DOMAIN community_patterns /\ missing # <<>>
             THEN <<Recommendation(<<title(tech), "Best Practices">>,
                        <<"Missing", Len(missing), "recommended patterns for", tech>>,
                        "high", "best_practice",
                        <<"Add", tech, "-specific patterns to .gitignore">>, 90,
                        <<"Community best practices for", tech, "projects">>)>>
             ELSE <<>>)
            \o generate_technology_recommendations(Tail(technologies), existing_gitignore)

priority_score(priority) ==
    CASE priority = "low" -> 1
      [] priority = "medium" -> 2
      [] priority = "high" -> 3
      [] priority = "critical" -> 4
      [] OTHER -> 1

\* the key of line 152, and the order of two keys (tuples compare field by field)
SortKey(x) == <<priority_score(x.priority), x.confidence>>
KeyLess(a, b) == a[1] < b[1] \/ (a[1] = b[1] /\ a[2] < b[2])

\* one step of the sort: x goes behind every element whose key is not smaller
\* than its own
InsertByKey(l, x) ==
    LET k == Cardinality({i \in 1..Len(l) : ~KeyLess(SortKey(l[i]), SortKey(x))})
    IN  SubSeq(l, 1, k) \o <<x>> \o SubSeq(l, k + 1, Len(l))

RECURSIVE SortRecsFrom(_, _)
SortRecsFrom(done, rest) ==
    IF rest = <<>> THEN done
    ELSE SortRecsFrom(InsertByKey(done, Head(rest)), Tail(rest))

\* sorted by ascending key and then reversed
sort_Reversed(l) == SortRecsFrom(<<>>, [i \in 1..Len(l) |-> l[Len(l) + 1 - i]])

\* recommendations.sort(key=..., reverse=True): a stable sort, so equal keys
\* keep the order they had
sort(l) == SortRecsFrom(<<>>, l)

\* lines 122-147: the lists of the four analyzers, one after the other
Extended(project_path, detected_technologies, existing_gitignore) ==
    LET project_analysis == analyze_project_structure(project_path)
    IN  generate_security_recommendations(project_path, project_analysis)
        \o generate_performance_recommendations(project_path, project_analysis)
        \o generate_best_practice_recommendations(project_path, detected_technologies,
                                                  existing_gitignore)
        \o generate_technology_recommendations(detected_technologies, existing_gitignore)

\* analyze_project_and_recommend that takes the patterns it reports out of the table
analyze_project_and_recommend_Consuming(project_path, detected_technologies, existing_gitignore) ==
    /\ ret' = [op |-> "analyze",
               result |-> sort(Extended(project_path, detected_technologies,
                                        existing_gitignore)),
               asked |-> FALSE,
               args |-> <<project_path, detected_technologies, existing_gitignore>>]
    /\ community_patterns' =
         [tech \in DOMAIN community_patterns |->
            IF InList(tech, detected_technologies) THEN <<>> ELSE community_patterns[tech]]
    /\ UNCHANGED <<templates_db, metadata_file, custom_dir, xfer_file, exported,
                   clock, faults>>

analyze_project_and_recommend(project_path, detected_technologies, existing_gitignore) ==
    /\ ret' = [op |-> "analyze",
               result |-> sort(Extended(project_path, detected_technologies,
                                        existing_gitignore)),
               asked |-> FALSE,
               args |-> <<project_path, detected_technologies, existing_gitignore>>]
    /\ UNCHANGED <<community_patterns, templates_db, metadata_file, custom_dir,
                   xfer_file, exported, clock, faults>>

(***************************************************************************)
(* Files that come from outside, and a new process.                        *)
(***************************************************************************)
\* a well-formed record written by someone else: its file_size and checksum
\* are not those of its content, and it was created after it was last updated
ForeignDict ==
    [name |-> NameA, description |-> DescTwo, content |-> ContentStar,
     author |-> <<120>>, version |-> VersionTwo, tags |-> TagsTwo,
     technologies |-> TechTwo, created_at |-> isoformat(1), updated_at |-> isoformat(0),
     downloads |-> 7, rating |-> 45, is_official |-> TRUE, is_custom |-> FALSE,
     file_size |-> 50, checksum |-> sha256_hexdigest(<<>>)]

\* a well-formed record whose name create_template would refuse
BlankNameDict ==
    [ForeignDict EXCEPT !.name = NameBlank, !.file_size = 1,
                        !.checksum = calculate_checksum(ContentStar)]

MissingFieldDict == [f \in TemplateFields \ {"checksum"} |-> ForeignDict[f]]

ExtraFieldDict == [f \in TemplateFields \cup {"license"} |->
                      IF f = "license" THEN <<>> ELSE ForeignDict[f]]

BadTimeDict == [ForeignDict EXCEPT !.updated_at = <<"yesterday">>]

Envelope(d) == [template |-> d, exported_at |-> isoformat(0), exported_by |-> "x"]

MalformedFiles ==
    {NoFile, BrokenFile, JsonFile([exported_by |-> "x"]),
     JsonFile(Envelope(MissingFieldDict)), JsonFile(Envelope(ExtraFieldDict)),
     JsonFile(Envelope(BadTimeDict))}

OutsideFiles ==
    MalformedFiles \cup {JsonFile(Envelope(ForeignDict)), JsonFile(Envelope(BlankNameDict))}

\* import_path names the file export_template wrote, or a file from outside
Import ==
    \E file \in OutsideFiles \cup {xfer_file} :
        \E answer \in Answers(Collides(file)) :
            import_template(file, answer, "ok", "ok")

\* import_template when the write of the content file or of the index fails
ImportFault ==
    \E file \in OutsideFiles \cup {xfer_file},
       io \in ({"ok"} \X SaveFailures) \cup (FileFailures \X {"ok"}) :
        /\ faults < MaxFaults
        /\ ImportLoads(file)
        /\ import_template(file, TRUE, io[1], io[2])

\* TemplateManager.__init__ in a new process, over the same directory
Restart ==
    /\ templates_db' = load_templates_database(metadata_file)
    /\ ret' = Ret("init", "none", FALSE)
    /\ UNCHANGED <<community_patterns, metadata_file, custom_dir, xfer_file, exported,
                   clock, faults>>

\* TemplateManager.__init__ in a new process when the index is there and open or
\* json.load raises: line 73 catches the exception, line 74 prints it, line 76
\* returns {}
RestartFault ==
    /\ faults < MaxFaults
    /\ metadata_file.state # "absent"
    /\ templates_db' = <<>>
    /\ faults' = faults + 1
    /\ ret' = Ret("init", "none", FALSE)
    /\ UNCHANGED <<community_patterns, metadata_file, custom_dir, xfer_file, exported, clock>>

Init ==
    /\ templates_db = <<>>
    /\ metadata_file = [state |-> "absent", data |-> <<>>]
    /\ custom_dir = <<>>
    /\ xfer_file = NoFile
    /\ exported = <<>>
    /\ clock = 0
    /\ faults = 0
    /\ community_patterns = load_community_patterns
    /\ ret = Ret("init", "none", FALSE)

Next == Create \/ Update \/ Delete \/ Export \/ Import \/ Restart

\* storage works
Spec == Init /\ [][Next]_vars

NextFaults ==
    Next \/ CreateFault \/ UpdateFault \/ DeleteFault \/ ExportFault \/ ImportFault
         \/ RestartFault

\* storage may fail, MaxFaults times
SpecFaults == Init /\ [][NextFaults]_vars

\* a second TemplateManager over the same directory, in a process of its own:
\* it is constructed, which loads the index into its own templates_db (line 59),
\* and creates a template (lines 97-145), while this one holds what it loaded
PeerCreate ==
    \E name \in CreateNames, now \in Nows :
        LET peer_db == load_templates_database(metadata_file)
        IN  /\ ~NameRefused(name)
            /\ ~HasName(peer_db, name)
            /\ Len(peer_db) < MaxTemplates
            /\ custom_dir' = write_text(custom_dir, name, ContentStar, "ok")
            /\ metadata_file' =
                 save_templates_database(
                     DbPut(peer_db, NewTemplate(name, DescTwo, ContentStar, AuthorMe,
                                                TagsOne, TechOne, FALSE, now)),
                     metadata_file, "ok")
            /\ clock' = now
            /\ ret' = Ret("peer create", "ok", FALSE)
            /\ UNCHANGED <<community_patterns, templates_db, xfer_file, exported, faults>>

NextPeers == Next \/ PeerCreate

\* two instances over one index file, mutating one after the other
SpecPeers == Init /\ [][NextPeers]_vars

(***************************************************************************)
(* Reading the store: a TemplateManager constructed over a directory that  *)
(* holds templates, and the calls of get_template and list_templates.      *)
(***************************************************************************)
SearchWEB == <<87, 69, 66>>              \* "WEB"
SearchD == <<100>>                       \* "d"
SearchA == <<65>>                        \* "A"
TagsXs == <<<<120>>, <<88>>>>            \* ["x", "X"]

\* the calls of list_templates the model makes, as <<search, tags, technologies,
\* custom_only, official_only>>: every search and every tags, each with the
\* other three filters one at a time and all at once, and the two together
ListRest ==
    {<<None, FALSE, FALSE>>, <<Some(<<>>), FALSE, FALSE>>, <<Some(TechOne), FALSE, FALSE>>,
     <<None, TRUE, FALSE>>, <<None, FALSE, TRUE>>, <<Some(TechOne), TRUE, TRUE>>}

ListArgs ==
    {<<search, None, rest[1], rest[2], rest[3]>> :
        search \in {None, Some(<<>>), Some(SearchWEB), Some(SearchD), Some(SearchA)},
        rest \in ListRest}
    \cup {<<None, tags, rest[1], rest[2], rest[3]>> :
            tags \in {Some(<<>>), Some(TagsXs)}, rest \in ListRest}
    \cup {<<Some(SearchD), Some(TagsXs), None, FALSE, FALSE>>,
          <<Some(SearchD), Some(TagsXs), Some(TechOne), TRUE, TRUE>>,
          <<Some(SearchWEB), Some(<<>>), Some(<<>>), FALSE, TRUE>>}

List ==
    \E args \in ListArgs :
        /\ ret' = [op |-> "list",
                   result |-> list_templates(templates_db, args[1], args[2], args[3],
                                             args[4], args[5]),
                   asked |-> FALSE, args |-> args]
        /\ UNCHANGED <<community_patterns, templates_db, metadata_file, custom_dir,
                      xfer_file, exported, clock, faults>>

\* the caller of get_template assigns to a field of the Template it was given:
\* get_template returns the object templates_db holds (line 213), not a copy,
\* so the assignment is to the stored object
CallerEdit ==
    /\ ret.op = "get"
    /\ ret.result # None
    /\ ret.result[1].description # <<>>
    /\ templates_db' =
         DbPut(templates_db, [Lookup(templates_db, ret.args) EXCEPT !.description = <<>>])
    /\ ret' = Ret("edit", "none", FALSE)
    /\ UNCHANGED <<community_patterns, metadata_file, custom_dir, xfer_file, exported,
                   clock, faults>>

\* templates an index can hold: made by create_template, and taken in from elsewhere
Pool ==
    {NewTemplate(NameA, DescOne, ContentStar, AuthorMe, TagsOne, TechOne, FALSE, 1),
     NewTemplate(NameB, DescOne, ContentAccent, AuthorMe, TagsOne, TechOne, TRUE, 2),
     TemplateOf(ForeignDict),
     TemplateOf(BlankNameDict),
     [TemplateOf(ForeignDict) EXCEPT !.name = NameLong, !.downloads = 3, !.tags = <<>>]}

\* the stores of at most MaxTemplates templates of Pool, no name twice
Stores ==
    {db \in UNION {[1..n -> Pool] : n \in 0..MaxTemplates} :
        \A i, j \in 1..Len(db) : db[i].name = db[j].name => i = j}

\* the state after TemplateManager.__init__ over a directory that holds a store
InitLoaded ==
    /\ \E db \in Stores :
         /\ metadata_file = [state |-> "ok", data |-> IndexData(db)]
         /\ custom_dir = [n \in {db[i].name : i \in 1..Len(db)} |-> Lookup(db, n).content]
    /\ templates_db = load_templates_database(metadata_file)
    /\ xfer_file = NoFile
    /\ exported = <<>>
    /\ clock = 0
    /\ faults = 0
    /\ community_patterns = load_community_patterns
    /\ ret = Ret("init", "none", FALSE)

NextQueries == Get \/ List \/ CallerEdit

SpecQueries == InitLoaded /\ [][NextQueries]_vars

NextReads == Get \/ List \/ Export

\* the calls that read the store: get_template, list_templates, export_template
SpecReads == InitLoaded /\ [][NextReads]_vars

(***************************************************************************)
(* The validator: a call of validate_template_content or of                *)
(* validate_template_name, and its return.                                 *)
(***************************************************************************)
StringsOver(alphabet, n) == UNION {[1..k -> alphabet] : k \in 0..n}

\* "#\na/\n/a #\n**a #\n": the shape of the problematic template of the examples
BadTemplate ==
    <<Hash, Newline, 97, Slash, Newline, Slash, 97, 32, Hash, Newline,
      Star, Star, 97, 32, Hash, Newline>>

\* the texts validate_template_content is called with
ContentTexts ==
    StringsOver({Slash, Star, Hash, 32, Newline, 97}, MaxContentLen) \cup {BadTemplate}

\* the names validate_template_name is called with: the short ones, and names
\* of MaxNameLength characters and of one more
ValidatedNames ==
    StringsOver({97, 49, Hyphen, Underscore, 32, 233}, MaxShortName)
    \cup {[i \in 1..MaxNameLength |-> 97],
          [i \in 1..(MaxNameLength + 1) |-> 97],
          [i \in 1..(MaxNameLength + 1) |-> IF i = 2 THEN 32 ELSE 97],
          [i \in 1..(MaxNameLength + 1) |-> Hyphen],
          [i \in 1..MaxNameLength |-> IF i = 2 THEN Underscore ELSE 49]}

Call(fn, arg) == [op |-> "call", result |-> fn, asked |-> FALSE, args |-> arg]

InitValidator ==
    /\ templates_db = <<>>
    /\ metadata_file = [state |-> "absent", data |-> <<>>]
    /\ custom_dir = <<>>
    /\ xfer_file = NoFile
    /\ exported = <<>>
    /\ clock = 0
    /\ faults = 0
    /\ community_patterns = load_community_patterns
    /\ \/ \E content \in ContentTexts : ret = Call("validate_template_content", content)
       \/ \E name \in ValidatedNames : ret = Call("validate_template_name", name)

ValidateContent ==
    /\ ret.op = "call"
    /\ ret.result = "validate_template_content"
    /\ ret' = [op |-> "validate_content", result |-> validate_template_content(ret.args),
               asked |-> FALSE, args |-> ret.args]
    /\ UNCHANGED <<community_patterns, templates_db, metadata_file, custom_dir,
                  xfer_file, exported, clock, faults>>

ValidateName ==
    /\ ret.op = "call"
    /\ ret.result = "validate_template_name"
    /\ ret' = [op |-> "validate_name", result |-> validate_template_name(ret.args),
               asked |-> FALSE, args |-> ret.args]
    /\ UNCHANGED <<community_patterns, templates_db, metadata_file, custom_dir,
                  xfer_file, exported, clock, faults>>

NextValidator == ValidateContent \/ ValidateName

SpecValidator == InitValidator /\ [][NextValidator]_vars

(***************************************************************************)
(* The engine: a call of analyze_project_and_recommend over a project      *)
(* directory, and its return; the same call may be made again.             *)
(***************************************************************************)
File(parents, name, st_size) ==
    [parents |-> parents, name |-> name, is_dir |-> FALSE, st_size |-> st_size]

Dir(parents, name) ==
    [parents |-> parents, name |-> name, is_dir |-> TRUE, st_size |-> 0]

DirLogs == <<108, 111, 103, 115>>                             \* "logs"
DirSrc == <<115, 114, 99>>                                    \* "src"

\* what a project directory can hold
Entries ==
    {File(<<>>, <<46, 101, 110, 118>>, 1),                    \* .env
     File(<<>>, <<99, 111, 110, 102, 105, 103, 46, 106, 115, 111, 110>>, 1),\* config.json
     \* Password.txt, of exactly 10MB
     File(<<>>, <<80, 97, 115, 115, 119, 111, 114, 100, 46, 116, 120, 116>>, LargeFileSize),
     File(<<>>, <<97, 112, 112, 46, 67, 111, 110, 102, 105, 103>>, 1),\* app.Config
     File(<<>>, <<98, 105, 103, 46, 98, 105, 110>>, LargeFileSize + 1),\* big.bin
     Dir(<<>>, <<67, 97, 99, 104, 101>>),                     \* Cache/
     Dir(<<>>, DirLogs),
     File(<<DirLogs>>, <<97, 112, 112, 46, 108, 111, 103>>, 1),\* logs/app.log
     Dir(<<>>, <<98, 117, 105, 108, 100>>),                   \* build/
     Dir(<<>>, DirSrc),
     Dir(<<DirSrc>>, <<111, 117, 116>>)}                      \* src/out/

\* the project directories of at most MaxEntries files and directories: what
\* is in a directory comes with the directory
Projects ==
    {p \in SUBSET Entries :
        /\ Cardinality(p) <= MaxEntries
        /\ \A e \in p : e.parents # <<>> => Dir(<<>>, e.parents[1]) \in p}

TechRust == <<114, 117, 115, 116>>                            \* "rust"

\* the lists of detected technologies
Technologies == StringsOver({TechPython, TechNode, TechRust}, MaxTechs)

RECURSIVE JoinLines(_)
\* "\n".join(lines)
JoinLines(lines) ==
    IF lines = <<>> THEN <<>>
    ELSE IF Len(lines) = 1 THEN lines[1]
    ELSE lines[1] \o <<Newline>> \o JoinLines(Tail(lines))

\* the .gitignore of the project: none, an empty one, ".venv/\nnode_modules/",
\* and one with every pattern of python and with "node_modules/"
ExistingTexts ==
    {None, Some(<<>>),
     Some(JoinLines(<<<<46, 118, 101, 110, 118, 47>>,
                      load_community_patterns[TechNode][1]>>)),
     Some(JoinLines(Append(load_community_patterns[TechPython],
                           load_community_patterns[TechNode][1])))}

InitEngine ==
    /\ templates_db = <<>>
    /\ metadata_file = [state |-> "absent", data |-> <<>>]
    /\ custom_dir = <<>>
    /\ xfer_file = NoFile
    /\ exported = <<>>
    /\ clock = 0
    /\ faults = 0
    /\ community_patterns = load_community_patterns
    /\ \E project_path \in Projects, detected_technologies \in Technologies,
          existing_gitignore \in ExistingTexts :
         ret = Call("analyze_project_and_recommend",
                    <<project_path, detected_technologies, existing_gitignore>>)

\* the call returns; the caller may make the same call again
Analyze ==
    /\ \/ ret.op = "call" /\ ret.result = "analyze_project_and_recommend"
       \/ ret.op = "analyze"
    /\ analyze_project_and_recommend(ret.args[1], ret.args[2], ret.args[3])

NextEngine == Analyze

SpecEngine == InitEngine /\ [][NextEngine]_vars

(***************************************************************************)
(* The store's contract.                                                   *)
(***************************************************************************)
Stored == {templates_db[i] : i \in 1..Len(templates_db)}

\* the entries a reader finds in the index: none when it is absent or unreadable
IndexEntries ==
    IF metadata_file.state = "ok"
    THEN {metadata_file.data[i] : i \in 1..Len(metadata_file.data)}
    ELSE {}

\* C1: every stored template's fileSize is the byte length of its content and
\* its checksum the digest of its content.
C1_SizeAndChecksumMatchContent ==
    \A t \in Stored :
        /\ t.file_size = Len(encode(t.content))
        /\ t.checksum = calculate_checksum(t.content)

\* C2: create on a name that is in the store fails with DuplicateName and
\* changes neither the store, nor the index, nor a content file.
C2_DuplicateCreateFails ==
    [][\A name \in CreateNames, args \in CreateArgs, now \in Nows :
          (/\ HasName(templates_db, name)
           /\ create_template(name, DescOne, args[1], AuthorMe, TagsOne, TechOne,
                              args[2], now, "ok", "ok"))
          => (/\ ret'.result = "DuplicateName"
              /\ UNCHANGED <<templates_db, metadata_file, custom_dir>>)]_vars

\* the name rule of the data model: not empty, at most 50 characters, each a
\* letter, a digit, '-' or '_'
NameAllowed(name) ==
    /\ Len(name) > 0
    /\ Len(name) <= MaxNameLength
    /\ \A i \in 1..Len(name) : IsAlnumChar(name[i]) \/ name[i] \in {Hyphen, Underscore}

\* C3: every name in the store obeys the name rule.
C3_StoredNamesAllowed == \A t \in Stored : NameAllowed(t.name)

\* C4: a content file exists for a name exactly when the index has an entry
\* for it, and holds that entry's content.
C4_IndexAndFilesAgree ==
    /\ DOMAIN custom_dir = {e[1] : e \in IndexEntries}
    /\ \A e \in IndexEntries : custom_dir[e[1]] = e[2].content

ChecksumVerifies(t) == t.checksum = calculate_checksum(t.content)

\* C5: export of a stored template returns true, and import of the exported
\* file into an empty store returns true and stores a record with the content,
\* checksum and fileSize of the exported template.
C5_ExportImportRoundTrip ==
    [][/\ ret'.op = "export" =>
            \A name \in ExportNames, now \in Nows :
                (HasName(templates_db, name) /\ export_template(name, now, "ok"))
                => ret'.result = "True"
       /\ \A answer \in BOOLEAN :
            (/\ ret'.op = "import"
             /\ exported # <<>>
             /\ templates_db = <<>>
             /\ import_template(xfer_file, answer, "ok", "ok"))
            => (/\ ret'.result = "True"
                /\ Len(templates_db') = 1
                /\ templates_db'[1].content = exported[1].content
                /\ templates_db'[1].checksum = exported[1].checksum
                /\ templates_db'[1].file_size = exported[1].file_size)]_vars

\* a template made by create_template was exported and then imported into the
\* empty store
C5_Witness ==
    /\ ret = Ret("import", "True", FALSE)
    /\ exported # <<>>
    /\ Len(templates_db) = 1
    /\ templates_db[1] = exported[1]
    /\ templates_db[1].is_custom

\* C6: a template whose checksum is not the digest of its content is refused
\* with CorruptTemplate by import, and is not loaded by a new process.
C6_CorruptTemplateSurfaced ==
    [][/\ \A file \in OutsideFiles \cup {xfer_file}, answer \in BOOLEAN :
            (/\ ImportLoads(file)
             /\ ~ChecksumVerifies(TemplateOf(file.doc.template))
             /\ import_template(file, answer, "ok", "ok"))
            => (ret'.result = "CorruptTemplate" /\ UNCHANGED templates_db)
       /\ Restart => \A i \in 1..Len(templates_db') : ChecksumVerifies(templates_db'[i])
      ]_vars

\* what update leaves of template t, by the record's fields: a supplied field
\* takes the supplied value, content brings file_size and checksum with it,
\* updated_at becomes stamp, and every other field stays
Updated(t, description, content, tags, technologies, version, stamp) ==
    [name |-> t.name,
     description |-> IF description # None THEN description[1] ELSE t.description,
     content |-> IF content # None THEN content[1] ELSE t.content,
     author |-> t.author,
     version |-> IF version # None THEN version[1] ELSE t.version,
     tags |-> IF tags # None THEN tags[1] ELSE t.tags,
     technologies |-> IF technologies # None THEN technologies[1] ELSE t.technologies,
     created_at |-> t.created_at,
     updated_at |-> stamp,
     downloads |-> t.downloads,
     rating |-> t.rating,
     is_official |-> t.is_official,
     is_custom |-> t.is_custom,
     file_size |-> IF content # None THEN Len(encode(content[1])) ELSE t.file_size,
     checksum |-> IF content # None THEN calculate_checksum(content[1]) ELSE t.checksum]

\* the store and the content files after an update of name that sets updated_at
\* to stamp
UpdateLeaves(name, description, content, tags, technologies, version, stamp) ==
    /\ ret'.result = "ok"
    /\ templates_db' =
         [i \in 1..Len(templates_db) |->
             IF templates_db[i].name = name
             THEN Updated(templates_db[i], description, content, tags, technologies,
                          version, stamp)
             ELSE templates_db[i]]
    /\ custom_dir' = IF content # None THEN (name :> content[1]) @@ custom_dir
                     ELSE custom_dir

\* C7 as claimed: updated_at changes only when content is supplied.
C7_UpdateFrameAsClaimed ==
    [][\A name \in UpdateNames, args \in UpdateArgs, now \in Nows :
          (/\ ret'.op = "update"
           /\ HasName(templates_db, name)
           /\ update_template(name, args[1], args[2], args[3], args[4], args[5],
                              now, "ok", "ok"))
          => UpdateLeaves(name, args[1], args[2], args[3], args[4], args[5],
                          IF args[2] # None THEN now
                          ELSE Lookup(templates_db, name).updated_at)]_vars

\* C7, amended: update changes the supplied fields, with content also file_size,
\* checksum and the content file, and always sets updated_at to the time of the
\* call; every other field and every other template stays.
C7_UpdateFrame ==
    [][\A name \in UpdateNames, args \in UpdateArgs, now \in Nows :
          (/\ ret'.op = "update"
           /\ HasName(templates_db, name)
           /\ update_template(name, args[1], args[2], args[3], args[4], args[5],
                              now, "ok", "ok"))
          => UpdateLeaves(name, args[1], args[2], args[3], args[4], args[5], now)]_vars

\* one of two templates was updated with a description only
C7_Witness ==
    /\ ret = Ret("update", "ok", FALSE)
    /\ Len(templates_db) = 2
    /\ \E t \in Stored :
        /\ t.updated_at > t.created_at
        /\ t.description = DescTwo
        /\ t.tags = TagsOne
        /\ t.version = VersionOne

\* C8: delete of a name that is not in the store fails with NotFound, whatever
\* force is, asks nothing, and leaves the store, the index and the files alone.
C8_DeleteMissingFails ==
    [][ret'.op = "delete" =>
        \A name \in CallNames, force \in BOOLEAN, answer \in BOOLEAN :
          (~HasName(templates_db, name) /\ delete_template(name, force, answer, "ok"))
          => (/\ ret' = Ret("delete", "NotFound", FALSE)
              /\ UNCHANGED <<templates_db, metadata_file, custom_dir>>)]_vars

\* a delete failed with NotFound on a store that holds a template
C8_Witness ==
    /\ ret = Ret("delete", "NotFound", FALSE)
    /\ templates_db # <<>>

\* C9: delete without force, and import of a name that is taken, ask before they
\* touch anything, and on the answer no return false with the store, the index
\* and the content files as before.
C9_ConfirmBeforeCommit ==
    [][/\ ret'.op = "delete" =>
          \A name \in CallNames, answer \in BOOLEAN :
            (HasName(templates_db, name) /\ delete_template(name, FALSE, answer, "ok"))
            => (/\ ret'.asked
                /\ ~answer => (/\ ret'.result = "False"
                               /\ UNCHANGED <<templates_db, metadata_file, custom_dir>>))
       /\ ret'.op = "import" =>
          \A file \in {f \in OutsideFiles \cup {xfer_file} : Collides(f)}, answer \in BOOLEAN :
            import_template(file, answer, "ok", "ok")
            => (/\ ret'.asked
                /\ ~answer => (/\ ret'.result = "False"
                               /\ UNCHANGED <<templates_db, metadata_file, custom_dir>>))
      ]_vars

\* an import of a taken name was declined
C9_Witness ==
    /\ ret = Ret("import", "False", TRUE)
    /\ templates_db # <<>>

\* C10: import of a file that cannot be read or is malformed returns false and
\* leaves the store, the index and the content files as they were.
C10_MalformedImportFails ==
    [][ret'.op = "import" =>
        \A file \in MalformedFiles, answer \in BOOLEAN :
          import_template(file, answer, "ok", "ok")
          => (/\ ret'.result = "False"
              /\ UNCHANGED <<templates_db, metadata_file, custom_dir>>)]_vars

\* an import failed without asking, on a store that holds a template
C10_Witness ==
    /\ ret = Ret("import", "False", FALSE)
    /\ templates_db # <<>>

\* the entries of an index file, and the names they are stored under
EntriesOf(file) ==
    IF file.state = "ok" THEN {file.data[i] : i \in 1..Len(file.data)} ELSE {}

NamesOf(file) == {e[1] : e \in EntriesOf(file)}

\* C11: when delete returns true, the name is in neither the store nor the
\* index, its content file is gone, get gives absence, and every other
\* template, index entry and content file is as before.
C11_DeleteRemoves ==
    [][ret'.op = "delete" =>
        \A name \in CallNames, force \in BOOLEAN, answer \in BOOLEAN,
           saveIO \in {"ok"} \cup SaveFailures :
          (delete_template(name, force, answer, saveIO) /\ ret'.result = "True")
          => (/\ get_template(templates_db', name) = None
              /\ name \notin NamesOf(metadata_file')
              /\ name \notin DOMAIN custom_dir'
              /\ templates_db' = SelectSeq(templates_db, LAMBDA t : t.name # name)
              /\ EntriesOf(metadata_file') = {e \in EntriesOf(metadata_file) : e[1] # name}
              /\ \A n \in DOMAIN custom_dir \ {name} :
                    n \in DOMAIN custom_dir' /\ custom_dir'[n] = custom_dir[n])]_vars

\* C12: a successful create adds one template under the name, last in the
\* store, with the given fields, version "1.0.0", downloads 0, rating 0.0,
\* is_custom, both times the time of the call, file_size and checksum those of
\* the content, a content file with the content and an index entry; every
\* other template, content file and index entry is as before.
C12_CreateAdds ==
    [][ret'.op = "create" =>
        \A name \in CreateNames, args \in CreateArgs, now \in Nows,
           saveIO \in {"ok"} \cup SaveFailures :
          (/\ create_template(name, DescOne, args[1], AuthorMe, TagsOne, TechOne,
                              args[2], now, "ok", saveIO)
           /\ ret'.result = "ok")
          => (/\ Len(templates_db') = Len(templates_db) + 1
              /\ \A i \in 1..Len(templates_db) : templates_db'[i] = templates_db[i]
              /\ LET t == templates_db'[Len(templates_db')]
                 IN  /\ t.name = name
                     /\ t.description = DescOne
                     /\ t.content = args[1]
                     /\ t.author = AuthorMe
                     /\ t.tags = TagsOne
                     /\ t.technologies = TechOne
                     /\ t.is_official = args[2]
                     /\ t.version = <<49, 46, 48, 46, 48>>
                     /\ t.downloads = 0
                     /\ t.rating = 0
                     /\ t.is_custom
                     /\ t.created_at = now
                     /\ t.updated_at = now
                     /\ t.file_size = Len(encode(args[1]))
                     /\ t.checksum = sha256_hexdigest(encode(args[1]))
                     /\ EntriesOf(metadata_file') =
                          EntriesOf(metadata_file) \cup {<<name, TemplateDict(t)>>}
              /\ custom_dir' = (name :> args[1]) @@ custom_dir)]_vars

\* C13: every stored template was last updated no earlier than it was created.
C13_UpdatedNotBeforeCreated == \A t \in Stored : t.updated_at >= t.created_at

\* two characters that are the same letter in either case
SameIgnoringCase(c, d) ==
    LET Upper == (65..90) \cup (192..214) \cup (216..222)
    IN  c = d \/ (c \in Upper /\ d = c + 32) \/ (d \in Upper /\ c = d + 32)

\* needle occurs in hay when case is ignored
ContainsIgnoringCase(needle, hay) ==
    \E i \in 0..(Len(hay) - Len(needle)) :
        \A k \in 1..Len(needle) : SameIgnoringCase(needle[k], hay[i + k])

Shares(l, m) == \E i \in 1..Len(l), j \in 1..Len(m) : l[i] = m[j]

\* a filter counts as supplied when it is given a value; emptyCounts says
\* whether the empty string and the empty list are such values
Supplied(opt, emptyCounts) == opt # None /\ (emptyCounts \/ opt[1] # <<>>)

\* template t passes the filters of args that count as supplied
Passes(t, args, emptyCounts) ==
    /\ Supplied(args[1], emptyCounts) =>
          \/ ContainsIgnoringCase(args[1][1], t.name)
          \/ ContainsIgnoringCase(args[1][1], t.description)
          \/ \E i \in 1..Len(t.tags) : ContainsIgnoringCase(args[1][1], t.tags[i])
    /\ Supplied(args[2], emptyCounts) => Shares(args[2][1], t.tags)
    /\ Supplied(args[3], emptyCounts) => Shares(args[3][1], t.technologies)
    /\ args[4] => t.is_custom
    /\ args[5] => t.is_official

\* the list returned holds the stored templates that pass, each once
ListReturnsThosePassing(emptyCounts) ==
    ret.op = "list" =>
        /\ {ret.result[i] : i \in 1..Len(ret.result)} =
              {t \in Stored : Passes(t, ret.args, emptyCounts)}
        /\ \A i, j \in 1..Len(ret.result) : ret.result[i] = ret.result[j] => i = j

\* C14 as claimed: list returns the stored templates that satisfy every filter
\* that was supplied, each once; a filter is supplied when it is given a value.
C14_ListFiltersAsClaimed == ListReturnsThosePassing(TRUE)

\* C14, amended: list returns the stored templates that satisfy every filter
\* that was supplied, each once; an empty search, tags or technologies counts
\* as not supplied.
C14_ListFilters == ListReturnsThosePassing(FALSE)

\* of two stored templates with the tag "web", the search "WEB" with
\* custom_only returned the one that is custom
C14_Witness ==
    /\ ret.op = "list"
    /\ ret.args[1] = Some(SearchWEB)
    /\ ret.args[4]
    /\ Len(templates_db) = 2
    /\ Len(ret.result) = 1
    /\ \A t \in Stored : \E i \in 1..Len(t.tags) : t.tags[i] = <<119, 101, 98>>

\* C15: the list returned is in descending order of downloads, and templates
\* with equal downloads are in the order of the store.
C15_ListOrder ==
    ret.op = "list" =>
        \A i \in 1..(Len(ret.result) - 1) :
            \/ ret.result[i].downloads > ret.result[i + 1].downloads
            \/ /\ ret.result[i].downloads = ret.result[i + 1].downloads
               /\ IndexOf(templates_db, ret.result[i].name)
                    < IndexOf(templates_db, ret.result[i + 1].name)

\* the list returned has the second stored template, with more downloads, first
C15_Witness ==
    /\ ret.op = "list"
    /\ Len(ret.result) = 2
    /\ ret.result[1] = templates_db[2]
    /\ ret.result[1].downloads > ret.result[2].downloads

\* C16: a change the caller makes to a Template it was given changes nothing
\* of what get returns afterwards.
C16_CallersHoldCopies ==
    [][ret'.op = "edit" =>
        \A name \in CallNames :
            get_template(templates_db', name) = get_template(templates_db, name)]_vars

\* the positions of the line feeds of a text, and the k-th of them, with 0
\* before the first and Len + 1 after the last
LineFeeds(text) == {i \in 1..Len(text) : text[i] = Newline}

LineFeed(text, k) ==
    IF k = 0 THEN 0
    ELSE IF k > Cardinality(LineFeeds(text)) THEN Len(text) + 1
    ELSE CHOOSE i \in LineFeeds(text) :
            Cardinality({j \in LineFeeds(text) : j < i}) = k - 1

\* the k-th line of a text, counted from 1, without the whitespace around it
TrimmedLine(text, k) ==
    LET raw == SubSeq(text, LineFeed(text, k - 1) + 1, LineFeed(text, k) - 1)
        inked == {i \in 1..Len(raw) : ~IsSpace(raw[i])}
    IN  IF inked = {} THEN <<>>
        ELSE SubSeq(raw, CHOOSE i \in inked : \A j \in inked : i <= j,
                         CHOOSE i \in inked : \A j \in inked : i >= j)

Blank(text) == \A i \in 1..Len(text) : IsSpace(text[i])

IsComment(line) == line # <<>> /\ line[1] = Hash

EndsWithSlash(line) == line # <<>> /\ line[Len(line)] = Slash

\* rule (b): an absolute path ends with '/'
AbsoluteRule(line) == (line # <<>> /\ line[1] = Slash) => EndsWithSlash(line)

\* rule (c): a line with '**' ends with '/'
DoubleStarRule(line) ==
    (\E i \in 1..(Len(line) - 1) : SubSeq(line, i, i + 1) = <<Star, Star>>)
    => EndsWithSlash(line)

\* every line that is not a comment is empty or keeps both rules
EveryLineKeepsRules(text) ==
    \A k \in 1..(Cardinality(LineFeeds(text)) + 1) :
        LET line == TrimmedLine(text, k)
        IN  IsComment(line) \/ line = <<>> \/ (AbsoluteRule(line) /\ DoubleStarRule(line))

\* C17 as claimed: validateContent accepts a text if and only if every line
\* that is not a comment is empty or keeps both rules.
C17_ContentAcceptedAsClaimed ==
    ret.op = "validate_content" => (ret.result.valid <=> EveryLineKeepsRules(ret.args))

\* C17, amended: validateContent accepts a text if and only if the text is not
\* empty or all whitespace and every line that is not a comment is empty or
\* keeps both rules.
C17_ContentAccepted ==
    ret.op = "validate_content" =>
        (ret.result.valid <=> (~Blank(ret.args) /\ EveryLineKeepsRules(ret.args)))

\* a text with an absolute path and a '**' that end with '/' was accepted
C17_Witness ==
    /\ ret.op = "validate_content"
    /\ ret.result.valid
    /\ \E k \in 1..2 : LET line == TrimmedLine(ret.args, k)
                       IN  /\ Len(line) > 2
                           /\ line[1] = Slash
                           /\ line[2] = Star /\ line[3] = Star

RECURSIVE ErrorsFromLine(_, _)
\* the errors the claim lists for the lines k, k + 1, ... of a text
ErrorsFromLine(text, k) ==
    IF k > Cardinality(LineFeeds(text)) + 1 THEN <<>>
    ELSE LET line == TrimmedLine(text, k)
         IN  (IF ~IsComment(line) /\ ~AbsoluteRule(line)
              THEN <<<<"absolute path", k, line>>>> ELSE <<>>)
             \o (IF ~IsComment(line) /\ ~DoubleStarRule(line)
                 THEN <<<<"double star", k, line>>>> ELSE <<>>)
             \o ErrorsFromLine(text, k + 1)

\* C18: validateContent returns the empty-content error when the text is empty
\* or all whitespace, then line by line the absolute-path error and the
\* double-star error of each violating line with its number counted from 1,
\* and the validity flag is true exactly when there is no error.
C18_ContentErrorsInOrder ==
    ret.op = "validate_content" =>
        /\ ret.result.errors =
              (IF Blank(ret.args) THEN <<<<"empty">>>> ELSE <<>>)
              \o ErrorsFromLine(ret.args, 1)
        /\ ret.result.valid <=> (ret.result.errors = <<>>)

\* the problematic template of the examples got its two errors, for the
\* lines 3 and 4
C18_Witness ==
    /\ ret.op = "validate_content"
    /\ ret.args = BadTemplate
    /\ Len(ret.result.errors) = 2
    /\ ret.result.errors[1][2] = 3
    /\ ret.result.errors[2][2] = 4
    /\ ~ret.result.valid

\* C19: validateName accepts a name if and only if it is not empty, has at most
\* 50 characters, and each character is a letter, a digit, '-' or '_'.
C19_NameAccepted ==
    ret.op = "validate_name" => (ret.result.valid <=> NameAllowed(ret.args))

\* a character that is neither a letter, nor a digit, nor '-', nor '_'
Forbidden(c) == ~IsAlnumChar(c) /\ c # Hyphen /\ c # Underscore

\* C20: validateName returns one error for each rule the name breaks, and no
\* other: the name is empty; it is longer than 50 characters; it has a
\* character that is neither a letter, nor a digit, nor '-', nor '_'.
C20_NameErrorsPerRule ==
    ret.op = "validate_name" =>
        ret.result.errors =
            (IF Len(ret.args) = 0 THEN <<"empty">> ELSE <<>>)
            \o (IF Len(ret.args) > 50 THEN <<"too long">> ELSE <<>>)
            \o (IF \E i \in 1..Len(ret.args) : Forbidden(ret.args[i])
                THEN <<"not alphanumeric">> ELSE <<>>)

(***************************************************************************)
(* The engine's contract.                                                  *)
(***************************************************************************)
\* the call of analyze_project_and_recommend has returned
Returned == ret.op = "analyze"

\* the lists of the four analyzers for the arguments of the call, one after
\* the other: security, performance, best practice, technology
Concatenation == Extended(ret.args[1], ret.args[2], ret.args[3])

\* critical 4 > high 3 > medium 2 > low 1
Score(r) ==
    IF r.priority = "critical" THEN 4
    ELSE IF r.priority = "high" THEN 3
    ELSE IF r.priority = "medium" THEN 2
    ELSE 1

SameKey(r, s) == Score(r) = Score(s) /\ r.confidence = s.confidence

\* C21: the list analyze returns is a permutation of the concatenation of the
\* four analyzers' lists, in descending order of priority score and then of
\* confidence, and recommendations equal on both keep the order they have in
\* the concatenation: for every key, the recommendations of that key are the
\* same sequence in both lists.
C21_SortedStablePermutation ==
    Returned =>
        LET out == ret.result
            cat == Concatenation
        IN  /\ Len(out) = Len(cat)
            /\ \A i, j \in 1..Len(out) :
                  i < j => \/ Score(out[i]) > Score(out[j])
                           \/ /\ Score(out[i]) = Score(out[j])
                              /\ out[i].confidence >= out[j].confidence
            /\ \A k \in 1..Len(cat) :
                  SelectSeq(out, LAMBDA r : SameKey(r, cat[k]))
                    = SelectSeq(cat, LAMBDA r : SameKey(r, cat[k]))

\* the sort moved a recommendation, a critical one is ahead of a medium one,
\* and two different recommendations have the same key
C21_Witness ==
    /\ Returned
    /\ LET out == ret.result
           cat == Concatenation
       IN  /\ out # cat
           /\ \E i, j \in 1..Len(out) :
                 i < j /\ out[i].priority = "critical" /\ out[j].priority = "medium"
           /\ \E i, j \in 1..Len(cat) :
                 i < j /\ SameKey(cat[i], cat[j]) /\ cat[i] # cat[j]

\* what a recommendation is about: the signal, or the technology, its title names
Trigger(r) == r.title

\* C22: within one call of analyze no trigger gets two recommendations: at
\* most one per signal trigger and at most one per technology, also when the
\* list of technologies names a technology more than once.
C22_OncePerTrigger ==
    Returned =>
        \A i, j \in 1..Len(ret.result) :
            Trigger(ret.result[i]) = Trigger(ret.result[j]) => i = j

\* the signals of the project of the call
Signals == analyze_project_structure(ret.args[1])

\* the recommendations of the signal analyzers in the returned list, and
\* those of them with the given values
OfSignals == {i \in 1..Len(ret.result) : Len(ret.result[i].title) = 1}

Valued(priority, category, confidence, name) ==
    {i \in OfSignals :
        /\ ret.result[i].priority = priority
        /\ ret.result[i].category = category
        /\ ret.result[i].confidence = confidence
        /\ ret.result[i].title = <<name>>}

OneIf(trigger, recs) == Cardinality(recs) = IF trigger THEN 1 ELSE 0

LogFilesPresent == \E p \in ret.args[1] : MatchesLog(p.name)

BuildDirPresent ==
    \E p \in ret.args[1] : p.is_dir /\ p.parents = <<>> /\ p.name \in BuildDirNames

\* C23: the security, performance and best-practice analyzers emit exactly
\* one recommendation for each trigger that holds and none for one that does
\* not, with the fixed values: sensitive files critical/security/0.95, a
\* file-type key containing "config" high/security/0.8, large files
\* high/performance/0.9, cache directories medium/performance/0.85, log files
\* medium/best_practice/0.9, a build, dist or out directory
\* high/best_practice/0.95; they emit nothing else, and an empty project
\* gives no recommendation.
C23_OnePerSignal ==
    Returned =>
        LET signals == Signals
            sensitive == Valued("critical", "security", 95, "Sensitive Files Detected")
            config == Valued("high", "security", 80, "Configuration Files")
            large == Valued("high", "performance", 90, "Large Files Detected")
            cache == Valued("medium", "performance", 85, "Cache Directories")
            logs == Valued("medium", "best_practice", 90, "Log Files")
            build == Valued("high", "best_practice", 95, "Build Output Directories")
        IN  /\ OneIf(signals.sensitive_files # {}, sensitive)
            /\ OneIf(\E ext \in DOMAIN signals.file_types :
                        \E i \in 1..(Len(ext) - 5) :
                           SubSeq(ext, i, i + 5)
                             = <<99, 111, 110, 102, 105, 103>>,    \* "config"
                     config)
            /\ OneIf(signals.large_files # {}, large)
            /\ OneIf(signals.cache_dirs # {}, cache)
            /\ OneIf(LogFilesPresent, logs)
            /\ OneIf(BuildDirPresent, build)
            /\ OfSignals = sensitive \cup config \cup large \cup cache \cup logs \cup build
            /\ ret.args[1] = {} => OfSignals = {}

\* a project with sensitive files, a config file type and a build directory
C23_Witness ==
    /\ Returned
    /\ Signals.sensitive_files # {}
    /\ Valued("high", "security", 80, "Configuration Files") # {}
    /\ BuildDirPresent
    /\ Cardinality(OfSignals) = 3

\* the patterns of the table for a technology that do not occur in the ignore
\* text of the call: all of them when no text is supplied
Missing(tech) ==
    {i \in 1..Len(load_community_patterns[tech]) :
        ret.args[3] = None \/ ~InStr(load_community_patterns[tech][i], ret.args[3][1])}

\* the detected technologies, in the order of the list, the analyzer has to
\* report: keys of the table with a pattern missing
Due ==
    SelectSeq(ret.args[2],
              LAMBDA tech : tech \in DOMAIN load_community_patterns /\ Missing(tech) # {})

\* the technology recommendations of the returned list, in its order
OfTechnologies == SelectSeq(ret.result, LAMBDA r : Len(r.title) = 2)

\* C24: for each detected technology that is a key of the pattern table, the
\* patterns of the table that are no substring of the existing ignore text
\* are missing (all of them without a text), and the analyzer emits one
\* high/best_practice/0.9 recommendation naming the technology and the number
\* of missing patterns exactly when one is missing; a technology that is not
\* in the table, or whose patterns all occur, gets nothing.  Each entry of
\* the list of technologies is one detected technology.
C24_TechnologyGaps ==
    Returned =>
        LET due == Due
            recs == OfTechnologies
        IN  /\ Len(recs) = Len(due)
            /\ \A i \in 1..Len(due) :
                  /\ i <= Len(recs)
                  /\ recs[i].priority = "high"
                  /\ recs[i].category = "best_practice"
                  /\ recs[i].confidence = 90
                  /\ recs[i].description
                       = <<"Missing", Cardinality(Missing(due[i])),
                           "recommended patterns for", due[i]>>

\* the text of the call covers one detected technology fully and another in part
C24_Witness ==
    /\ Returned
    /\ ret.args[3] # None
    /\ \E i \in 1..Len(ret.args[2]) :
          ret.args[2][i] \in DOMAIN load_community_patterns /\ Missing(ret.args[2][i]) = {}
    /\ \E i \in 1..Len(OfTechnologies) :
          OfTechnologies[i].description[2] < Len(load_community_patterns[TechNode])

(***************************************************************************)
(* The store and its index file; the engine's state.                       *)
(***************************************************************************)
\* a reader can load the index
Readable(file) ==
    file.state = "ok" /\ \A i \in 1..Len(file.data) : DictLoads(file.data[i][2])

\* the step constructs a store over an index that is there, and its read of
\* the index fails
FailedRead ==
    /\ ret'.op = "init"
    /\ metadata_file.state # "absent"
    /\ faults' > faults \/ ~Readable(metadata_file)

\* the store a failed read of an index that holds templates has left
AfterFailedRead == ret.op = "init" /\ templates_db = <<>> /\ EntriesOf(metadata_file) # {}

Mutating == {"create", "update", "delete", "import"}

\* C25: when the index is there and cannot be read or parsed, the store
\* reports StorageIO, and no create, update, delete or import that follows
\* replaces the index by one without the templates it held before the read.
C25_UnreadableIndexKept ==
    [][/\ FailedRead => ret'.result = "StorageIO"
       /\ (AfterFailedRead /\ ret'.op \in Mutating)
            => NamesOf(metadata_file) \subseteq NamesOf(metadata_file')]_vars

\* C26: a mutating operation works on the index as it is when the operation
\* is called, so that of two instances over one index file that mutate one
\* after the other the index holds the effects of both: an operation drops no
\* entry from the index but that of the template it deletes.
C26_BothEffectsInIndex ==
    [][(ret'.op \in Mutating \cup {"peer create"})
         => (NamesOf(metadata_file) \ NamesOf(metadata_file'))
              \subseteq (IF ret'.op = "delete"
                         THEN {templates_db[i].name : i \in 1..Len(templates_db)}
                         ELSE {})]_vars

\* C27: get, list and export change neither the templates in memory, nor the
\* index file, nor the content files, whatever their arguments; get gives
\* absence for an unknown name and export false; and each record they return
\* is a whole template as the store holds it at the call.
C27_ReadsChangeNothing ==
    [][(ret'.op \in {"get", "list", "export"}) =>
         /\ UNCHANGED <<templates_db, metadata_file, custom_dir>>
         /\ ret'.op = "get" =>
              /\ ret'.result = None <=> \A t \in Stored : t.name # ret'.args
              /\ ret'.result # None => ret'.result[1] \in Stored
         /\ ret'.op = "list" =>
              \A i \in 1..Len(ret'.result) : ret'.result[i] \in Stored
         /\ ret'.op = "export" =>
              /\ Stored = {} => ret'.result = "False"
              /\ ret'.result = "False" => xfer_file' = xfer_file
              /\ ret'.result = "True" =>
                   \E t \in Stored : xfer_file'.doc.template = TemplateDict(t)]_vars

\* a template has been exported, and get has given absence for a name the
\* store, which holds templates, does not have
C27_Witness ==
    /\ ret.op = "get"
    /\ ret.result = None
    /\ templates_db # <<>>
    /\ exported # <<>>
    /\ xfer_file # NoFile

\* C28: analyze is a pure function of its inputs: a call changes neither the
\* pattern table of the engine nor any other state, and the same call made
\* again returns the same list.
C28_AnalyzeIsPure ==
    [][(ret'.op = "analyze") =>
         /\ UNCHANGED <<community_patterns, templates_db, metadata_file, custom_dir,
                        xfer_file, exported, clock, faults>>
         /\ ret'.args = ret.args
         /\ ret.op = "analyze" => ret'.result = ret.result]_vars

\* a call that read the pattern table has returned: it reports a technology
C28_Witness ==
    /\ Returned
    /\ community_patterns = load_community_patterns
    /\ \E i \in 1..Len(ret.result) : Len(ret.result[i].title) = 2

\* what an operation gives when it raises
Raised == {"StorageIO", "InvalidName", "DuplicateName", "NotFound", "CorruptTemplate"}

\* C29: after create, update, delete and import calls that have returned, a
\* new store instance that loads the index holds the templates this one
\* holds, with the same values in every field.
C29_IndexHoldsTheStore ==
    (ret.op \in Mutating /\ ret.result \notin Raised)
        => LET loaded == load_templates_database(metadata_file)
           IN  {loaded[i] : i \in 1..Len(loaded)} = Stored

\* the names of the claim
SensitiveNames ==
    <<<<46, 101, 110, 118>>,                                                  \* .env
      <<46, 107, 101, 121>>,                                                  \* .key
      <<46, 112, 101, 109>>,                                                  \* .pem
      <<46, 99, 114, 116>>,                                                   \* .crt
      <<46, 112, 49, 50>>,                                                    \* .p12
      <<46, 112, 102, 120>>,                                                  \* .pfx
      <<99, 111, 110, 102, 105, 103, 46, 106, 115, 111, 110>>,                \* config.json
      <<115, 101, 99, 114, 101, 116, 115, 46>>,                               \* secrets.
      <<112, 97, 115, 115, 119, 111, 114, 100>>,                              \* password
      <<99, 114, 101, 100, 101, 110, 116, 105, 97, 108>>>>                    \* credential

\* the files of the project of the call whose lower-cased name contains one
\* of the sensitive names
NamedSensitive ==
    {p \in ret.args[1] :
        ~p.is_dir /\ \E i \in 1..Len(SensitiveNames) : InStr(SensitiveNames[i], lower(p.name))}

\* C30: the scan takes a file for sensitive when its lower-cased name
\* contains .env, .key, .pem, .crt, .p12, .pfx, config.json, secrets.,
\* password or credential, so a project with such a file gets the critical
\* "Sensitive Files Detected" recommendation, which counts those files.
C30_SensitiveNamesFound ==
    (Returned /\ NamedSensitive # {}) =>
        \E i \in 1..Len(ret.result) :
            /\ ret.result[i].priority = "critical"
            /\ ret.result[i].title = <<"Sensitive Files Detected">>
            /\ ret.result[i].description
                 = <<"Found", Cardinality(NamedSensitive), "potentially sensitive files">>

====
